---- MODULE Spec2Model ----
(***************************************************************************)
(* Presence tracker of src/app.py: POST /v1/hit (record_hit) writes         *)
(* presence:<sid>, the sorted set online:<path> and metrics:pv:total        *)
(* through a non-transactional Redis pipeline; GET /sse/online              *)
(* (_sse_stream / _collect_online_stats) scans the online:* keys, prunes    *)
(* and counts them and yields one frame per iteration.                      *)
(*                                                                         *)
(* Every Redis command is one atomic step on the shared store; the          *)
(* commands of one pipeline (transaction=False) and of one frame            *)
(* computation interleave with the commands of the other clients.           *)
(***************************************************************************)
EXTENDS Integers, Sequences, FiniteSets, TLC

VARIABLES
    clock,      \* time.time() / the Redis server's clock, whole seconds
    online,     \* online:<path> sorted sets: path -> (member -> score)
    expireAt,   \* key-level expiry of online:<path>: absolute second, or NoExpiry
    presence,   \* presence:<sid> string keys: sid -> [val, exp]
    pv,         \* metrics:pv:total
    hit,        \* one record_hit request per handler thread
    sub,        \* one _sse_stream generator per subscriber
    frame,      \* the frame each subscriber has just been sent
    connected,  \* whether the subscriber's client is still attached
    ttl         \* PRESENCE_TTL as the process read it at start-up

vars == <<clock, ttl, online, expireAt, presence, pv, hit, sub, frame, connected>>
store == <<online, expireAt, presence, pv>>

----------------------------------------------------------------------------
(* Bounds of the model and program constants *)

\* PRESENCE_TTL of the modelled deployment (src/app.py:46 reads it from the
\* environment; the default is 90).
presence_ttl == 1
\* EXPIRE online_key 300
KEY_EXPIRE == 300
\* per_path[:10]
TOP_N == 10
\* time.sleep(2)
SLEEP_SECONDS == 2
\* the clock runs 0..MaxClock
MaxClock == 2
\* metrics:pv:total is followed up to MaxPv
MaxPv == 1
\* one scan_iter is followed over at most MaxScans SCAN calls
MaxScans == 2

Handlers == {"h1", "h2"}
Subs == {"c1"}

NoExpiry == -1
SP == " "

----------------------------------------------------------------------------
(* Request payloads: JSON values as [t |-> type, v |-> value] *)

JStr(s) == [t |-> "str", v |-> s]
JNull == [t |-> "null", v |-> ""]
JNum == [t |-> "num", v |-> ""]
\* a JSON array or object: a Python list or dict, which cannot be hashed
JArr == [t |-> "arr", v |-> ""]
\* sid values carry their characters, so that strip() is computed
JSid(cs) == [t |-> "str", v |-> cs]
JSidNull == [t |-> "null", v |-> <<>>]
JSidNum == [t |-> "num", v |-> <<>>]

SidInputs == {JSidNull, JSidNum, JSid(<<SP>>), JSid(<<SP, "a">>), JSid(<<"b">>)}
PathInputs == {JNull, JStr(""), JStr("/a")}
KindInputs == {JNull, JArr, JStr("load"), JStr("beat"), JStr("unload"), JStr("ping")}

Sids == {<<"a">>, <<"b">>}
Paths == {"/", "/a"}

----------------------------------------------------------------------------
(* The Redis commands the program issues, as functions of the value held   *)
(* under one key.  A sorted set is a function member -> score; a key whose *)
(* set is empty does not exist.                                            *)

EmptySet == [m \in {} |-> 0]

\* ZAdd that keeps the score of a member it already holds (ZADD NX)
ZAdd_KeepOld(z, m, sc) ==
    [x \in (DOMAIN z) \cup {m} |-> IF x \in DOMAIN z THEN z[x] ELSE sc]

\* ZADD key {member: score}: insert, or overwrite the score
ZAdd(z, m, sc) == [x \in (DOMAIN z) \cup {m} |-> IF x = m THEN sc ELSE z[x]]

\* ZREM key member
ZRem(z, m) == [x \in (DOMAIN z) \ {m} |-> z[x]]

\* ZREMRANGEBYSCORE key lo hi: both ends inclusive
ZRemRangeByScore(z, lo, hi) ==
    [x \in {y \in DOMAIN z : ~(lo <= z[y] /\ z[y] <= hi)} |-> z[x]]

\* ZCARD key
ZCard(z) == Cardinality(DOMAIN z)

\* the key-level expiry that goes with a new value of a set: a key that
\* stops existing loses its expiry
KeepExpiry(z, e) == IF DOMAIN z = {} THEN NoExpiry ELSE e

\* EXPIRE key seconds, at server time t: no effect on a missing key
Expire(z, e, seconds, t) == IF DOMAIN z = {} THEN NoExpiry ELSE t + seconds

\* SETEX key seconds value, at server time t
SetEx(p, k, seconds, value, t) ==
    [x \in (DOMAIN p) \cup {k} |->
        IF x = k THEN [val |-> value, exp |-> t + seconds] ELSE p[x]]

\* DEL key
Del(p, k) == [x \in (DOMAIN p) \ {k} |-> p[x]]

\* the server drops every key whose expiry has been reached at time t
ExpiredPaths(e, t) == {q \in Paths : e[q] # NoExpiry /\ e[q] <= t}
ExpiredSids(p, t) == {k \in DOMAIN p : p[k].exp <= t}

\* one command of a pipeline applied to the store at server time `clock`
Cmd(op, key, member, arg) == [op |-> op, key |-> key, member |-> member, arg |-> arg]

ExecCmd(c) ==
    /\ online' =
         IF c.op = "ZADD" THEN [online EXCEPT ![c.key] = ZAdd(@, c.member, c.arg)]
         ELSE IF c.op = "ZREM" THEN [online EXCEPT ![c.key] = ZRem(@, c.member)]
         ELSE IF c.op = "ZREMRANGEBYSCORE"
              THEN [online EXCEPT ![c.key] = ZRemRangeByScore(@, 0, c.arg)]
         ELSE online
    /\ expireAt' =
         IF c.op = "EXPIRE"
         THEN [expireAt EXCEPT ![c.key] = Expire(online[c.key], @, c.arg, clock)]
         ELSE IF c.op \in {"ZADD", "ZREM", "ZREMRANGEBYSCORE"}
         THEN [expireAt EXCEPT ![c.key] = KeepExpiry(online'[c.key], @)]
         ELSE expireAt
    /\ presence' =
         IF c.op = "SETEX" THEN SetEx(presence, c.member, ttl, c.arg, clock)
         ELSE IF c.op = "DEL" THEN Del(presence, c.member)
         ELSE presence
    /\ pv' = IF c.op = "INCR" THEN pv + 1 ELSE pv

----------------------------------------------------------------------------
(* record_hit: POST /v1/hit *)

RECURSIVE LStrip(_)
LStrip(s) == IF s = <<>> THEN s
             ELSE IF Head(s) = SP THEN LStrip(Tail(s)) ELSE s

RECURSIVE RStrip(_)
RStrip(s) == IF s = <<>> THEN s
             ELSE IF s[Len(s)] = SP THEN RStrip(SubSeq(s, 1, Len(s) - 1)) ELSE s

\* str.strip()
Strip(s) == RStrip(LStrip(s))

\* not isinstance(sid, str) or not sid.strip()
SidRejected(sidIn) == sidIn.t # "str" \/ Strip(sidIn.v) = <<>>

\* payload.get("path", "/"), then "/" for a non-string or an empty string
NormPath(pathIn) == IF pathIn.t # "str" \/ pathIn.v = "" THEN "/" ELSE pathIn.v

\* event_kind not in {"load", "beat", "unload"}: the membership test hashes
\* event_kind, and raises TypeError for a list or a dict; "" when the kind
\* is one of the three
KindError(kindIn) ==
    IF kindIn.t = "arr" THEN "TypeError"
    ELSE IF kindIn.t # "str" \/ kindIn.v \notin {"load", "beat", "unload"}
    THEN "invalid_kind"
    ELSE ""

Resp(status, ok, error) == [status |-> status, ok |-> ok, error |-> error]
NoResp == Resp(0, FALSE, "")

\* a request: the method and, for POST, the body and the three fields read
\* from the payload
Req(method, body, sidIn, pathIn, kindIn) ==
    [method |-> method, body |-> body, sid |-> sidIn, path |-> pathIn, kind |-> kindIn]
NoReq == Req("", "", JSidNull, JNull, JNull)

\* the requests of a run: OPTIONS, the two malformed bodies, and every
\* object made of the given field values
RequestsOf(sidIns, pathIns, kindIns) ==
    {Req("OPTIONS", "", JSidNull, JNull, JNull),
     Req("POST", "invalid_json", JSidNull, JNull, JNull),
     Req("POST", "not_object", JSidNull, JNull, JNull)}
    \cup {Req("POST", "object", si, pa, ki) :
            si \in sidIns, pa \in pathIns, ki \in kindIns}

IdleHit == [pc |-> "idle", req |-> NoReq, sid |-> <<>>, path |-> "", kind |-> "",
            now |-> 0, ops |-> <<>>, resp |-> NoResp]

\* the request is over: the response is on its way, the locals are gone
Finished(r) == [IdleHit EXCEPT !.pc = "done", !.resp = r]

\* Pipeline with the ZREM of an unload forgotten
Pipeline_NoZrem(kind, sid, path, now) ==
    (IF kind = "unload"
     THEN <<Cmd("DEL", "", sid, 0)>>
     ELSE <<Cmd("SETEX", "", sid, now), Cmd("ZADD", path, sid, now)>>
          \o (IF kind = "load" THEN <<Cmd("INCR", "", sid, 0)>> ELSE <<>>))
    \o <<Cmd("ZREMRANGEBYSCORE", path, sid, now - ttl),
         Cmd("EXPIRE", path, sid, KEY_EXPIRE)>>

\* Pipeline with the ZREM of an unload run on every path
Pipeline_UnloadEverywhere(kind, sid, path, now) ==
    (IF kind = "unload"
     THEN <<Cmd("DEL", "", sid, 0), Cmd("ZREM", "/", sid, 0), Cmd("ZREM", "/a", sid, 0)>>
     ELSE <<Cmd("SETEX", "", sid, now), Cmd("ZADD", path, sid, now)>>
          \o (IF kind = "load" THEN <<Cmd("INCR", "", sid, 0)>> ELSE <<>>))
    \o <<Cmd("ZREMRANGEBYSCORE", path, sid, now - ttl),
         Cmd("EXPIRE", path, sid, KEY_EXPIRE)>>

\* Pipeline with the INCR of metrics:pv:total queued for a beat as well
Pipeline_IncrOnBeat(kind, sid, path, now) ==
    (IF kind = "unload"
     THEN <<Cmd("DEL", "", sid, 0), Cmd("ZREM", path, sid, 0)>>
     ELSE <<Cmd("SETEX", "", sid, now), Cmd("ZADD", path, sid, now),
            Cmd("INCR", "", sid, 0)>>)
    \o <<Cmd("ZREMRANGEBYSCORE", path, sid, now - ttl),
         Cmd("EXPIRE", path, sid, KEY_EXPIRE)>>

\* the commands queued on the pipeline, in order
Pipeline(kind, sid, path, now) ==
    (IF kind = "unload"
     THEN <<Cmd("DEL", "", sid, 0), Cmd("ZREM", path, sid, 0)>>
     ELSE <<Cmd("SETEX", "", sid, now), Cmd("ZADD", path, sid, now)>>
          \o (IF kind = "load" THEN <<Cmd("INCR", "", sid, 0)>> ELSE <<>>))
    \o <<Cmd("ZREMRANGEBYSCORE", path, sid, now - ttl),
         Cmd("EXPIRE", path, sid, KEY_EXPIRE)>>

\* the outcome of the validation: "" when the hit is accepted, "TypeError"
\* when the exception of the kind test leaves record_hit
ValidationError(req) ==
    IF req.body = "invalid_json" THEN "invalid_json"
    ELSE IF req.body = "not_object" THEN "invalid_payload"
    ELSE IF SidRejected(req.sid) THEN "sid_required"
    ELSE KindError(req.kind)

\* requests in progress that will still run an INCR
PendingIncr ==
    Cardinality({h \in Handlers :
        \/ hit[h].pc = "recv" /\ hit[h].req.kind = JStr("load")
        \/ \E i \in 1..Len(hit[h].ops) : hit[h].ops[i].op = "INCR"})

\* a request reaches a free handler thread
HitReceive(h, reqs) ==
    /\ hit[h].pc \in {"idle", "done"}
    /\ \E req \in reqs :
         /\ req.kind = JStr("load") => pv + PendingIncr < MaxPv
         /\ hit' = [hit EXCEPT ![h] = [IdleHit EXCEPT !.pc = "recv", !.req = req]]
    /\ UNCHANGED <<clock, ttl, online, expireAt, presence, pv, sub, frame, connected>>

\* record_hit up to pipeline.execute(): the preflight answer, or a 400, or
\* the uncaught TypeError (Flask answers 500, no JSON body), or the clock is
\* read and the pipeline is queued
HitValidate(h) ==
    /\ hit[h].pc = "recv"
    /\ LET req == hit[h].req
           sid == Strip(req.sid.v)
           path == NormPath(req.path)
       IN  hit' = [hit EXCEPT ![h] =
             IF req.method = "OPTIONS" THEN Finished(Resp(204, TRUE, ""))
             ELSE IF ValidationError(req) = "TypeError"
             THEN Finished(Resp(500, FALSE, ""))
             ELSE IF ValidationError(req) # ""
             THEN Finished(Resp(400, FALSE, ValidationError(req)))
             ELSE [pc |-> "pipe", req |-> NoReq, sid |-> sid, path |-> path,
                   kind |-> req.kind.v, now |-> clock,
                   ops |-> Pipeline(req.kind.v, sid, path, clock),
                   resp |-> NoResp]]
    /\ UNCHANGED <<clock, ttl, online, expireAt, presence, pv, sub, frame, connected>>

\* pipeline.execute(): the server runs the next queued command
HitExec(h) ==
    /\ hit[h].pc = "pipe"
    /\ hit[h].ops # <<>>
    /\ ExecCmd(Head(hit[h].ops))
    /\ hit' = [hit EXCEPT ![h].ops = Tail(@)]
    /\ UNCHANGED <<clock, ttl, sub, frame, connected>>

\* execute() returned: log hit_ok, answer {"ok": true}
HitOk(h) ==
    /\ hit[h].pc = "pipe"
    /\ hit[h].ops = <<>>
    /\ hit' = [hit EXCEPT ![h] = Finished(Resp(200, TRUE, ""))]
    /\ UNCHANGED <<clock, ttl, online, expireAt, presence, pv, sub, frame, connected>>

\* execute() raised redis.RedisError: the commands not yet run are lost, 503
HitFail(h) ==
    /\ hit[h].pc = "pipe"
    /\ hit' = [hit EXCEPT ![h] = Finished(Resp(503, FALSE, "redis_error"))]
    /\ UNCHANGED <<clock, ttl, online, expireAt, presence, pv, sub, frame, connected>>

----------------------------------------------------------------------------
(* _collect_online_stats and _sse_stream: GET /sse/online *)

\* the online:* keys that exist
ExistingKeys == {q \in Paths : DOMAIN online[q] # {}}

\* what one SCAN call can return: some of the keys K, every key of `must`
\* among them, each once, in any order
Batches(K, must) ==
    UNION {{f \in [1..Cardinality(S) -> S] : \A i, j \in DOMAIN f : f[i] = f[j] => i = j}
              : S \in {T \in SUBSET K : must \subseteq T}}

\* the elements of a sequence
Range(f) == {f[i] : i \in DOMAIN f}

\* x goes behind every entry whose count is not smaller: entries with equal
\* counts keep the order in which they were appended
InsertByCount(srt, x) ==
    LET k == Cardinality({i \in DOMAIN srt : srt[i][2] >= x[2]})
    IN  SubSeq(srt, 1, k) \o <<x>> \o SubSeq(srt, k + 1, Len(srt))

RECURSIVE SortFrom(_, _)
SortFrom(srt, rest) ==
    IF rest = <<>> THEN srt ELSE SortFrom(InsertByCount(srt, Head(rest)), Tail(rest))

\* per_path.sort(key=lambda item: item[1], reverse=True): a stable sort
SortByCount(per_path) == SortFrom(<<>>, per_path)

\* per_path[:10]
TopPages(srt) == SubSeq(srt, 1, IF Len(srt) < TOP_N THEN Len(srt) ELSE TOP_N)

Payload(ts, total, top) == [ts |-> ts, online_total |-> total, top_pages |-> top]
NoFrame == Payload(-1, 0, <<>>)

\* keys: what is left of the batch of the last SCAN call; scans: the SCAN
\* calls made; more: the cursor of the last call was not 0; pending: the keys
\* that were there at the first call and that no call has returned yet
NewSub == [pc |-> "start", now |-> 0, keys |-> <<>>, scans |-> 0, more |-> FALSE,
           pending |-> {}, total |-> 0, per_path |-> <<>>, wake |-> 0,
           raised |-> FALSE]

\* the locals of _collect_online_stats are gone once it has returned or raised
Cleared(r) == [r EXCEPT !.now = 0, !.keys = <<>>, !.scans = 0, !.more = FALSE,
                        !.pending = {}, !.total = 0, !.per_path = <<>>]

\* now = int(time.time()); cutoff, total, per_path
SubBegin(s) ==
    /\ sub[s].pc = "start"
    /\ sub' = [sub EXCEPT ![s].pc = "scan", ![s].now = clock]
    /\ UNCHANGED <<clock, ttl, online, expireAt, presence, pv, hit, frame, connected>>

\* scan_iter(match="online:*"): one SCAN call, made when the loop asks for
\* a key and the last batch is used up.  A call whose cursor is not 0
\* returns some of the existing keys, possibly none, and is followed by
\* another call; the call that ends the iteration returns at least the keys
\* that were there from the first call on and have not been returned yet.  A key can come
\* back in a later call although an earlier one has returned it, and a key
\* created after the first call can be missed.
SubScan(s) ==
    /\ sub[s].pc = "scan"
    /\ \E more \in BOOLEAN :
         /\ more => sub[s].scans + 1 < MaxScans
         /\ LET K == ExistingKeys
                owed == IF sub[s].scans = 0 THEN K ELSE sub[s].pending \cap K
            IN  \E batch \in Batches(K, IF more THEN {} ELSE owed) :
                  /\ sub' = [sub EXCEPT
                        ![s].keys = batch,
                        ![s].scans = @ + 1,
                        ![s].more = more,
                        ![s].pending = IF more THEN owed \ Range(batch) ELSE {},
                        ![s].pc = IF batch # <<>> THEN "prune"
                                  ELSE IF more THEN "scan" ELSE "emit"]
    /\ UNCHANGED <<clock, ttl, online, expireAt, presence, pv, hit, frame, connected>>

\* redis_client.zremrangebyscore(key, 0, cutoff)
SubPrune(s) ==
    /\ sub[s].pc = "prune"
    /\ ExecCmd(Cmd("ZREMRANGEBYSCORE", Head(sub[s].keys), <<>>,
                   sub[s].now - ttl))
    /\ sub' = [sub EXCEPT ![s].pc = "card"]
    /\ UNCHANGED <<clock, ttl, hit, frame, connected>>

\* count = redis_client.zcard(key), and the bookkeeping of one key
SubCard(s) ==
    /\ sub[s].pc = "card"
    /\ LET key == Head(sub[s].keys)
           count == ZCard(online[key])
       IN  sub' = [sub EXCEPT
               ![s].total = IF count > 0 THEN @ + count ELSE @,
               ![s].per_path = IF count > 0 THEN Append(@, <<key, count>>) ELSE @,
               ![s].keys = Tail(@),
               ![s].pc = IF Tail(sub[s].keys) # <<>> THEN "prune"
                         ELSE IF sub[s].more THEN "scan" ELSE "emit"]
    /\ UNCHANGED <<clock, ttl, online, expireAt, presence, pv, hit, frame, connected>>

\* a store command of the computation raises redis.RedisError: logged,
\* re-raised, caught by _sse_stream
SubRaise(s) ==
    /\ sub[s].pc \in {"scan", "prune", "card"}
    /\ sub' = [sub EXCEPT ![s] = [Cleared(@) EXCEPT !.pc = "except", !.raised = TRUE]]
    /\ UNCHANGED <<clock, ttl, online, expireAt, presence, pv, hit, frame, connected>>

\* what the generator does with a payload: the frame reaches an attached
\* client and the loop goes to sleep; the write to a detached client fails
\* and the generator is closed
Deliver(s, payload) ==
    IF connected[s]
    THEN /\ frame' = [frame EXCEPT ![s] = payload]
         /\ sub' = [sub EXCEPT ![s] =
                [Cleared(@) EXCEPT !.pc = "sleep", !.wake = clock + SLEEP_SECONDS]]
    ELSE /\ frame' = frame
         /\ sub' = [sub EXCEPT ![s] = [Cleared(@) EXCEPT !.pc = "closed"]]

\* sort, truncate, return the payload; yield it
SubYield(s) ==
    /\ sub[s].pc = "emit"
    /\ Deliver(s, Payload(sub[s].now, sub[s].total,
                          TopPages(SortByCount(sub[s].per_path))))
    /\ UNCHANGED <<clock, ttl, online, expireAt, presence, pv, hit, connected>>

\* except redis.RedisError: the substitute payload; yield it
SubYieldError(s) ==
    /\ sub[s].pc = "except"
    /\ Deliver(s, Payload(clock, 0, <<>>))
    /\ UNCHANGED <<clock, ttl, online, expireAt, presence, pv, hit, connected>>

\* time.sleep(2) is over: next iteration of while True
SubWake(s) ==
    /\ sub[s].pc = "sleep"
    /\ clock >= sub[s].wake
    /\ sub' = [sub EXCEPT ![s].pc = "start", ![s].wake = 0, ![s].raised = FALSE]
    /\ frame' = [frame EXCEPT ![s] = NoFrame]
    /\ UNCHANGED <<clock, ttl, online, expireAt, presence, pv, hit, connected>>

\* the client goes away
Disconnect(s) ==
    /\ connected[s]
    /\ sub[s].pc # "closed"
    /\ connected' = [connected EXCEPT ![s] = FALSE]
    /\ UNCHANGED <<clock, ttl, online, expireAt, presence, pv, hit, sub, frame>>

----------------------------------------------------------------------------
(* Time, and the server's expiry of whole keys *)

\* d seconds pass; the server drops the keys whose expiry is reached
Elapse(d) ==
    /\ clock' = clock + d
    /\ online' = [q \in Paths |->
           IF q \in ExpiredPaths(expireAt, clock + d) THEN EmptySet ELSE online[q]]
    /\ expireAt' = [q \in Paths |->
           IF q \in ExpiredPaths(expireAt, clock + d) THEN NoExpiry ELSE expireAt[q]]
    /\ presence' = [k \in (DOMAIN presence) \ ExpiredSids(presence, clock + d)
                      |-> presence[k]]
    /\ UNCHANGED <<ttl, pv, hit, sub, frame, connected>>

Tick(d) == clock + d <= MaxClock /\ Elapse(d)

\* the key expiry of online:<path> runs out: KEY_EXPIRE seconds pass at once
Leap == clock <= MaxClock /\ Elapse(KEY_EXPIRE)

----------------------------------------------------------------------------

\* the state after start-up, PRESENCE_TTL being t
Start(t) ==
    /\ clock = 0
    /\ ttl = t
    /\ online = [q \in Paths |-> EmptySet]
    /\ expireAt = [q \in Paths |-> NoExpiry]
    /\ presence = EmptySet
    /\ pv = 0
    /\ hit = [h \in Handlers |-> IdleHit]
    /\ sub = [s \in Subs |-> NewSub]
    /\ frame = [s \in Subs |-> NoFrame]
    /\ connected = [s \in Subs |-> TRUE]

Init == Start(presence_ttl)

HitStep(h, reqs) ==
    \/ HitReceive(h, reqs)
    \/ HitValidate(h)
    \/ HitExec(h)
    \/ HitOk(h)
    \/ HitFail(h)

SubStep(s) ==
    \/ SubBegin(s)
    \/ SubScan(s)
    \/ SubPrune(s)
    \/ SubCard(s)
    \/ SubRaise(s)
    \/ SubYield(s)
    \/ SubYieldError(s)
    \/ SubWake(s)

\* One handler thread and one attached subscriber (c1): heartbeats and leaves
\* of one session, heartbeats of another, on the default path.
MainRequests ==
    RequestsOf({JSid(<<SP, "a">>)}, {JNull}, {JStr("beat"), JStr("unload")})
    \cup RequestsOf({JSid(<<"b">>)}, {JNull}, {JStr("beat")})

Next ==
    \/ HitStep("h1", MainRequests)
    \/ SubStep("c1")
    \/ Tick(1)

Spec == Init /\ [][Next]_vars

\* One handler thread and one subscriber, one session on two paths.
PathRequests ==
    RequestsOf({JSid(<<SP, "a">>)}, {JNull, JStr("/a")}, {JStr("beat"), JStr("unload")})

NextPaths ==
    \/ HitStep("h1", PathRequests)
    \/ SubStep("c1")
    \/ Tick(1)

SpecPaths == Init /\ [][NextPaths]_vars

\* One handler thread and one subscriber whose client may go away: one
\* session on the default path.
DetachRequests ==
    RequestsOf({JSid(<<"b">>)}, {JNull}, {JStr("beat"), JStr("unload")})

NextDetach ==
    \/ HitStep("h1", DetachRequests)
    \/ SubStep("c1") \/ Disconnect("c1")
    \/ Tick(1)

SpecDetach == Init /\ [][NextDetach]_vars

\* One handler thread alone: every shape of sid, path and kind.
HitRequests ==
    RequestsOf({JSidNull, JSidNum, JSid(<<SP>>), JSid(<<SP, "a">>)}, PathInputs, KindInputs)

NextHit ==
    \/ HitStep("h1", HitRequests)
    \/ Tick(1)

SpecHit == Init /\ [][NextHit]_vars

\* Two handler threads racing on one key, no subscriber.
RaceRequests ==
    RequestsOf({JSid(<<"b">>)}, {JNull}, {JStr("load"), JStr("beat"), JStr("unload")})

NextRace ==
    \/ \E h \in Handlers : HitStep(h, RaceRequests)
    \/ Tick(1)

SpecRace == Init /\ [][NextRace]_vars

\* One handler thread and one subscriber: page loads, heartbeats and leaves
\* of one session on the default path.
NextViews ==
    \/ HitStep("h1", RaceRequests)
    \/ SubStep("c1")
    \/ Tick(1)

SpecViews == Init /\ [][NextViews]_vars

\* One handler thread alone: heartbeats and leaves of one session on two
\* paths, page loads of another session on the default path.
FrameRequests ==
    RequestsOf({JSid(<<SP, "a">>)}, {JNull, JStr("/a")}, {JStr("beat"), JStr("unload")})
    \cup RequestsOf({JSid(<<"b">>)}, {JNull}, {JStr("load")})

NextFrame ==
    \/ HitStep("h1", FrameRequests)
    \/ Tick(1)

SpecFrame == Init /\ [][NextFrame]_vars

\* A deployment with the default kind of PRESENCE_TTL or with one longer than
\* the expiry of the online:<path> keys.  One handler thread and one
\* subscriber, heartbeats and leaves of one session on the default path.
InitLong == \E t \in {presence_ttl, KEY_EXPIRE + 1} : Start(t)

NextLong ==
    \/ HitStep("h1", DetachRequests)
    \/ SubStep("c1")
    \/ Tick(1)
    \/ Leap

SpecLong == InitLong /\ [][NextLong]_vars

\* _collect_online_stats from its first line to its return, when no other
\* client touches the store in between: z are the online:* sets, visits the
\* keys in the order in which scan_iter hands them to the loop.  The result
\* is the sets as the prunes leave them and the payload returned.
RECURSIVE CollectFrom(_, _, _, _, _)
CollectFrom(z, now, visits, total, per_path) ==
    IF visits = <<>>
    THEN [online |-> z,
          payload |-> Payload(now, total, TopPages(SortByCount(per_path)))]
    ELSE LET key == Head(visits)
             pruned == ZRemRangeByScore(z[key], 0, now - ttl)
             count == ZCard(pruned)
         IN  CollectFrom([z EXCEPT ![key] = pruned], now, Tail(visits),
                         IF count > 0 THEN total + count ELSE total,
                         IF count > 0 THEN Append(per_path, <<key, count>>)
                                      ELSE per_path)

Collect(z, now, visits) == CollectFrom(z, now, visits, 0, <<>>)

\* what scan_iter can hand to the loop when the keys K are there all along:
\* the batch of one SCAN call, or the batches of two, the second holding at
\* least the keys the first has left out
Visits(K) ==
    UNION {{b1 \o b2 : b2 \in Batches(K, K \ Range(b1))} : b1 \in Batches(K, {})}

----------------------------------------------------------------------------
(* Properties *)

\* the step in which subscriber s counts the key at the head of its scan
Counts(s) == sub[s].pc = "card" /\ sub'[s].pc \in {"prune", "scan", "emit"}

\* the members of online:<q> that are not expired at time ts
Live(q, ts) == {m \in DOMAIN online[q] : ~(ts - online[q][m] > ttl)}

\* C1: TTL correctness.  Whatever the interleaving of hits and frame
\* computations, what a frame computation adds to online_total (and to the
\* path's top_pages count) for a key never exceeds the number of members of
\* that key that are not expired at the frame's ts: no member with
\* ts - lastSeen > PRESENCE_TTL is counted.
C1_NoExpiredMemberCounted ==
    [][\A s \in Subs :
          Counts(s) =>
             sub'[s].total - sub[s].total
                <= Cardinality(Live(Head(sub[s].keys), sub[s].now))]_vars

\* handler h runs one more command of its pipeline, leaving n of them
RunsTo(h, n) ==
    /\ hit[h].pc = "pipe" /\ hit'[h].pc = "pipe"
    /\ Len(hit[h].ops) = n + 1 /\ Len(hit'[h].ops) = n

\* handler h, working on a load or beat for (m, q), runs a command
Upserts(h, m, q) ==
    /\ hit[h].pc = "pipe" /\ hit[h].kind \in {"load", "beat"}
    /\ hit[h].sid = m /\ hit[h].path = q
    /\ hit[h].ops # <<>> /\ hit'[h].ops = Tail(hit[h].ops)

\* C2: leave removes immediately.  Once the first two commands of an unload
\* for (sid, path) have run (only the trim and the expiry refresh are left),
\* sid is not a member of online:<path>, whatever its score was; a sid
\* that is not a member becomes one only by a command of a load/beat for the
\* same (sid, path); and a frame computation counts for a path exactly the
\* members the set has at that moment.  So no frame computed after the unload
\* counts sid under path until a later load/beat for that key is applied.
C2_LeaveRemovesImmediately ==
    [][/\ \A h \in Handlers :
             (hit[h].kind = "unload" /\ RunsTo(h, 2))
                => hit[h].sid \notin DOMAIN online'[hit[h].path]
       /\ \A q \in Paths, m \in Sids :
             (m \notin DOMAIN online[q] /\ m \in DOMAIN online'[q])
                => \E h \in Handlers : Upserts(h, m, q)
       /\ \A s \in Subs :
             Counts(s) =>
                sub'[s].total - sub[s].total
                   = Cardinality(DOMAIN online[Head(sub[s].keys)])]_vars

\* a page load of session b has been applied, an unload of b has then run all
\* its commands at time t leaving online:/ empty, and the frame with ts = t
\* reports nobody online
C2_Witness ==
    \E h \in Handlers, s \in Subs :
        /\ hit[h].pc = "pipe" /\ hit[h].kind = "unload" /\ hit[h].ops = <<>>
        /\ hit[h].sid = <<"b">> /\ hit[h].path = "/"
        /\ pv = 1
        /\ online["/"] = EmptySet
        /\ frame[s] = Payload(hit[h].now, 0, <<>>)

\* the step in which subscriber s prunes the key at the head of its scan
SubPrunes(s) == sub[s].pc = "prune" /\ sub'[s].pc = "card"

\* the step in which handler h runs the trim of its pipeline
HitPrunes(h) ==
    /\ hit[h].pc = "pipe" /\ hit[h].ops # <<>>
    /\ Head(hit[h].ops).op = "ZREMRANGEBYSCORE"
    /\ hit'[h].ops = Tail(hit[h].ops)

\* members of online:<q> with a score of at least now - ttl are still there
\* after the step
KeepsFrom(q, cutoff) ==
    \A m \in DOMAIN online[q] : online[q][m] >= cutoff => m \in DOMAIN online'[q]

\* C3: no lost updates.  A prune with parameters (now, ttl), whether run by a
\* hit pipeline or by a frame computation, leaves every key k present whose
\* upsert carried a timestamp t1 >= now - ttl.
C3_NoLostUpdates ==
    [][/\ \A s \in Subs :
             SubPrunes(s) => KeepsFrom(Head(sub[s].keys), sub[s].now - ttl)
       /\ \A h \in Handlers :
             HitPrunes(h) => KeepsFrom(hit[h].path, hit[h].now - ttl)]_vars

\* the path names in ascending order
PathsAscending == <<"/", "/a">>
Rank(q) == CHOOSE i \in DOMAIN PathsAscending : PathsAscending[i] = q

\* count descending, then path name ascending
InTopOrder(x, y) == x[2] > y[2] \/ (x[2] = y[2] /\ Rank(x[1]) <= Rank(y[1]))

\* C4: deterministic top-N.  top_pages of every frame is ordered by count
\* descending and, among paths with equal counts, by path name ascending,
\* whatever the order in which the store enumerates the keys.
C4_DeterministicTopN ==
    \A s \in Subs :
        \A i, j \in DOMAIN frame[s].top_pages :
            i < j => InTopOrder(frame[s].top_pages[i], frame[s].top_pages[j])

\* some but not all commands of h's pipeline have been applied
PartlyApplied(h) ==
    /\ hit[h].pc = "pipe"
    /\ 0 < Len(hit[h].ops)
    /\ Len(hit[h].ops) < Len(Pipeline(hit[h].kind, hit[h].sid, hit[h].path, hit[h].now))

\* the step is a store command of subscriber s (SCAN, ZREMRANGEBYSCORE, ZCARD)
SubAccesses(s) ==
    /\ sub[s].pc \in {"scan", "prune", "card"}
    /\ sub'[s] # sub[s]
    /\ sub'[s].pc # "except"

\* the step is a store command of handler h
HitAccesses(h) ==
    hit[h].pc = "pipe" /\ hit[h].ops # <<>> /\ hit'[h].ops = Tail(hit[h].ops)

\* C5: atomic event application.  While only some of the store operations of
\* a hit have been applied, no frame computation and no other hit handler
\* runs a command against the store: the batch is never observed half-done.
C5_AtomicBatch ==
    [][\A h \in Handlers :
          PartlyApplied(h) =>
             /\ \A s \in Subs : ~SubAccesses(s)
             /\ \A g \in Handlers \ {h} : ~HitAccesses(g)]_vars

\* a sid that is missing, not a string, or made of whitespace only
BadSid(req) == req.sid.t # "str" \/ \A i \in DOMAIN req.sid.v : req.sid.v[i] = SP

\* a kind that is none of load, beat, unload
BadKind(req) == req.kind \notin {JStr("load"), JStr("beat"), JStr("unload")}

\* handler h answers the JSON object it has received
Answers(h) ==
    /\ hit[h].pc = "recv" /\ hit'[h].pc # "recv"
    /\ hit[h].req.method = "POST" /\ hit[h].req.body = "object"

\* C6: validation failure leaves the store untouched.  A hit whose sid is
\* missing, not a string or blank is answered 400 sid_required; a hit with a
\* good sid whose kind is not load, beat or unload is answered 400
\* invalid_kind; in both cases the request is over with no command queued,
\* and presence keys, online sets, expiries and the pageview counter are the
\* same before and after.
C6_RejectedHitLeavesStore ==
    [][\A h \in Handlers :
          Answers(h) =>
             /\ BadSid(hit[h].req) =>
                   /\ hit'[h] = Finished(Resp(400, FALSE, "sid_required"))
                   /\ UNCHANGED store
             /\ (~BadSid(hit[h].req) /\ BadKind(hit[h].req)) =>
                   /\ hit'[h] = Finished(Resp(400, FALSE, "invalid_kind"))
                   /\ UNCHANGED store]_vars

\* C7: error frame content.  The frame yielded after a frame computation
\* failed with a store error carries an explicit error indicator, together
\* with online_total = 0 and an empty top_pages.
C7_ErrorFrameFlagged ==
    [][\A s \in Subs :
          (sub[s].pc = "except" /\ sub'[s].pc = "sleep") =>
             /\ "error" \in DOMAIN frame'[s]
             /\ frame'[s].online_total = 0
             /\ frame'[s].top_pages = <<>>]_vars

\* C8: the loop terminates after a store fault.  Once the frame that follows
\* a failed computation has been yielded, the loop of that subscriber is
\* over: it starts no further computation.
C8_LoopStopsAfterFault ==
    [][\A s \in Subs :
          (sub[s].pc = "sleep" /\ sub[s].raised) => sub'[s].pc \in {"sleep", "closed"}]_vars

\* C9: monotonic lastSeen.  The score stored for a (sid, path) never
\* decreases while the record exists, in whatever order concurrent
\* handlers' batches are executed.
C9_MonotonicLastSeen ==
    [][\A q \in Paths :
          \A m \in (DOMAIN online[q]) \cap (DOMAIN online'[q]) :
              online'[q][m] >= online[q][m]]_vars

\* the step in which handler h runs the ZADD of its load or beat
HitUpserts(h) ==
    /\ hit[h].pc = "pipe" /\ hit[h].kind \in {"load", "beat"}
    /\ hit[h].ops # <<>> /\ Head(hit[h].ops).op = "ZADD"
    /\ hit'[h].ops = Tail(hit[h].ops)

\* C10: at most one live record per (sid, path).  The upsert of a load or
\* beat for (sid, path) leaves every other member of the path as it is,
\* stores the event's timestamp as the sid's lastSeen, and raises the path's
\* member count by one when the sid was absent and by nothing when it was
\* present: a repeated heartbeat only overwrites lastSeen.
C10_OneRecordPerKey ==
    [][\A h \in Handlers :
          HitUpserts(h) =>
             LET q == hit[h].path
                 m == hit[h].sid
             IN  /\ online'[q][m] = hit[h].now
                 /\ \A x \in (DOMAIN online[q]) \ {m} :
                       x \in DOMAIN online'[q] /\ online'[q][x] = online[q][x]
                 /\ ZCard(online'[q]) =
                       ZCard(online[q]) + (IF m \in DOMAIN online[q] THEN 0 ELSE 1)]_vars

\* two heartbeats of session b, read at different seconds, have both run
\* their ZADD: b is the only member, once, with the later timestamp
C10_Witness ==
    \E h, g \in Handlers :
        /\ hit[h].pc = "pipe" /\ hit[h].kind \in {"load", "beat"}
        /\ hit[g].pc = "pipe" /\ hit[g].kind \in {"load", "beat"}
        /\ hit[h].sid = <<"b">> /\ hit[g].sid = <<"b">>
        /\ hit[h].now < hit[g].now
        /\ Len(hit[h].ops) = 2 /\ Len(hit[g].ops) = 2
        /\ online["/"] = (<<"b">> :> hit[g].now)


\* the step in which subscriber s is sent the frame it has computed
Yields(s) == sub[s].pc = "emit" /\ sub'[s].pc = "sleep"

\* the keys that exist among the sets z
KeysOf(z) == {q \in Paths : DOMAIN z[q] # {}}

\* C11: idempotent aggregation.  On any store the program reaches, a frame
\* computation followed by a second one with the same now, with nothing else
\* touching the store, gives twice the same payload (same ts, same
\* online_total, same top_pages in the same order), whatever the scan hands
\* to either of them, and the second one prunes nothing.
C11_IdempotentAggregation ==
    \A v1 \in Visits(ExistingKeys) :
        LET first == Collect(online, clock, v1)
        IN  \A v2 \in Visits(KeysOf(first.online)) :
                LET second == Collect(first.online, clock, v2)
                IN  /\ second.online = first.online
                    /\ second.payload = first.payload

\* the step in which handler h answers 503 redis_error
Fails(h) == hit[h].pc = "pipe" /\ hit'[h].resp.status = 503

\* no command of h's pipeline has been applied to the store
NothingApplied(h) ==
    hit[h].ops = Pipeline(hit[h].kind, hit[h].sid, hit[h].path, hit[h].now)

\* C12: no half-updated record on failure.  When a hit is answered 503
\* redis_error, none of the store commands of its batch has been applied: the
\* store is as if the event had never come, and the sid is not written to (or
\* removed from) presence:<sid> alone.
C12_NoHalfUpdateOnFailure ==
    [][\A h \in Handlers : Fails(h) => NothingApplied(h)]_vars

\* the INCR commands among the commands ops
Incrs(ops) == Cardinality({i \in DOMAIN ops : ops[i].op = "INCR"})

\* the step in which handler h queues the pipeline of an accepted hit
Queues(h) == hit[h].pc = "recv" /\ hit'[h].pc = "pipe"

\* C13: pageview counter monotonicity.  metrics:pv:total never decreases.  The
\* batch of a load holds exactly one INCR and the batch of a beat or an
\* unload none; running an INCR raises the counter by exactly 1, and no other
\* step (any other command of a hit, a prune, a frame computation, the
\* passing of time) changes it.
C13_PageviewsMonotonic ==
    [][/\ pv' >= pv
       /\ \A h \in Handlers :
             /\ Queues(h) =>
                   Incrs(hit'[h].ops) = IF hit'[h].kind = "load" THEN 1 ELSE 0
             /\ HitAccesses(h) => pv' - pv = Incrs(hit[h].ops) - Incrs(hit'[h].ops)
             /\ hit'[h].resp.status = 200 => Incrs(hit[h].ops) = 0
       /\ (\A h \in Handlers : ~HitAccesses(h)) => pv' = pv]_vars

\* a page load has been counted, a later unload has run its whole batch, and
\* a frame computation has pruned a key and is about to count it
C13_Witness ==
    /\ pv = 1
    /\ \E h \in Handlers :
          hit[h].pc = "pipe" /\ hit[h].kind = "unload" /\ hit[h].ops = <<>>
    /\ \E s \in Subs : sub[s].pc = "card"

\* C14: cancellation on detach.  Once the client of a subscriber has gone
\* away, the subscriber's loop runs no further store command (no SCAN, no
\* prune, no count) and sends no further frame: it does not go on computing
\* until the delivery of a later frame fails.
C14_CancellationOnDetach ==
    [][\A s \in Subs :
          ~connected[s] => ~SubAccesses(s) /\ ~Yields(s)]_vars

\* the sessions whose newest heartbeat, at t0 <= t, is younger than
\* PRESENCE_TTL at time t and has not been followed by an unload:
\* presence:<sid> holds t0 from the SETEX of that heartbeat until an unload
\* deletes it
Heartbeating(t) ==
    {k \in DOMAIN presence : presence[k].val <= t /\ t - presence[k].val < ttl}

\* the last hit of handler h was applied in full and answered 200, and no
\* other hit has come since
Applied(h) == hit[h].pc = "done" /\ hit[h].resp.status = 200

\* C15: live records are reported until TTL.  Whatever PRESENCE_TTL is
\* configured, while the session's last hit is a heartbeat at t0 on the
\* default path that was applied without a store failure, with no unload
\* after it, and now - t0 < PRESENCE_TTL, the session is a member of
\* online:/, and what a frame computation counts for a key is no less than
\* the members of the key that are younger than PRESENCE_TTL at its now.
C15_LiveUntilTtl ==
    [][/\ Applied("h1")' => Heartbeating(clock)' \subseteq DOMAIN online'["/"]
       /\ \A s \in Subs :
             Counts(s) =>
                sub'[s].total - sub[s].total
                   >= Cardinality({m \in DOMAIN online[Head(sub[s].keys)] :
                         sub[s].now - online[Head(sub[s].keys)][m] < ttl})]_vars

\* the step removes from online:<q> the members whose lastSeen is below
\* cutoff, and nothing else
RemovesBelow(q, cutoff) ==
    online'[q] = [m \in {x \in DOMAIN online[q] : ~(online[q][x] < cutoff)}
                     |-> online[q][m]]

\* C16: expiry boundary.  A prune with (now, ttl), in a hit pipeline or in a
\* frame computation, removes exactly the members with lastSeen < now - ttl:
\* a member whose age is exactly the TTL (lastSeen = now - ttl) survives it,
\* to be counted by the ZCARD that follows.
C16_ExpiryBoundary ==
    [][/\ \A s \in Subs :
             SubPrunes(s) => RemovesBelow(Head(sub[s].keys), sub[s].now - ttl)
       /\ \A h \in Handlers :
             HitPrunes(h) => RemovesBelow(hit[h].path, hit[h].now - ttl)]_vars

\* C17: expiry safeguard invariant.  In every reachable state of the store,
\* the states between two commands of a hit batch and those left by a batch
\* that failed part-way included, every online:<path> key that exists has a
\* key-level expiry, of at most KEY_EXPIRE seconds from now.
C17_ExpirySafeguard ==
    \A q \in Paths :
        DOMAIN online[q] # {} =>
           expireAt[q] # NoExpiry /\ expireAt[q] - clock <= KEY_EXPIRE

RECURSIVE SumCounts(_)
SumCounts(entries) ==
    IF entries = <<>> THEN 0 ELSE Head(entries)[2] + SumCounts(Tail(entries))

\* the count with which path q was first found
FoundCount(per_path, q) ==
    per_path[CHOOSE i \in DOMAIN per_path :
                /\ per_path[i][1] = q
                /\ \A j \in DOMAIN per_path : per_path[j][1] = q => i <= j][2]

RECURSIVE SumOver(_, _)
SumOver(per_path, Q) ==
    IF Q = {} THEN 0
    ELSE LET q == CHOOSE x \in Q : TRUE
         IN  FoundCount(per_path, q) + SumOver(per_path, Q \ {q})

\* the paths found non-empty
PathsFound(per_path) == {per_path[i][1] : i \in DOMAIN per_path}

\* payload f is a consistent summary of the (path, count) entries per_path
Summarises(f, per_path) ==
    /\ f.online_total = SumOver(per_path, PathsFound(per_path))
    /\ Len(f.top_pages) <= TOP_N
    /\ \A i \in DOMAIN f.top_pages :
          /\ f.top_pages[i][2] >= 1
          /\ \E k \in DOMAIN per_path : per_path[k] = f.top_pages[i]
    /\ \A i, j \in DOMAIN f.top_pages :
          i < j => f.top_pages[i][2] >= f.top_pages[j][2]
    /\ SumCounts(f.top_pages) <= f.online_total
    /\ Cardinality(PathsFound(per_path)) <= TOP_N
          => SumCounts(f.top_pages) = f.online_total

\* C18: aggregate consistency.  In the frame a computation returns,
\* online_total is the sum, over the paths it found non-empty, of the
\* path's member count; top_pages has at most TOP_N entries, each with a
\* count of at least 1, in non-increasing order of count, summing to at most
\* online_total and to exactly online_total when at most TOP_N paths were
\* non-empty.
C18_AggregateConsistency ==
    [][\A s \in Subs :
          Yields(s) => Summarises(frame'[s], sub[s].per_path)]_vars

\* C19: frame of a hit event.  A store command of a hit for (sid, path)
\* leaves every other online:<q>, q # path, as it is (members, scores and
\* key expiry), leaves the presence key of every other session as it is, and
\* leaves metrics:pv:total as it is unless the hit is a load: an unload for
\* one path does not remove the session's record under another path.
C19_FrameOfHit ==
    [][\A h \in Handlers :
          HitAccesses(h) =>
             /\ \A q \in Paths \ {hit[h].path} :
                   online'[q] = online[q] /\ expireAt'[q] = expireAt[q]
             /\ \A k \in Sids \ {hit[h].sid} :
                   /\ k \in DOMAIN presence' <=> k \in DOMAIN presence
                   /\ k \in DOMAIN presence => presence'[k] = presence[k]
             /\ hit[h].kind # "load" => pv' = pv]_vars

\* an unload of a session for one path has run its whole batch while the
\* session's record under the other path and the presence key of the other
\* session are still there
C19_Witness ==
    \E h \in Handlers : \E q \in Paths \ {hit[h].path} :
        /\ hit[h].pc = "pipe" /\ hit[h].kind = "unload" /\ hit[h].ops = <<>>
        /\ hit[h].sid \in DOMAIN online[q]
        /\ \E k \in Sids \ {hit[h].sid} : k \in DOMAIN presence

====
